---------------------------- MODULE Spec2Model ----------------------------
(***************************************************************************)
(* Model of the trial scheduler of calico21/Carmaker:                      *)
(*   - ResourceManager (src/src/core/resource_manager.py): a semaphore of  *)
(*     licences and a queue of TCP ports handed out by the context manager *)
(*     lease();                                                            *)
(*   - OptimizationOrchestrator (src/src/core/orchestrator.py): objective  *)
(*     with its acquisition gate, _run_carmaker_simulation, ingestion and  *)
(*     periodic retraining of the SurrogateOracle                          *)
(*     (src/src/core/surrogate.py).                                        *)
(* Times and costs are integers in hundredths of a second.                 *)
(*   - CarMakerInterface (src/src/interface/carmaker_interface.py):        *)
(*     run_test, which starts one CarMaker process per trial, polls for a  *)
(*     result until its deadline and kills the process;                    *)
(*   - the entry scripts (src/run_real_optimization.py, src/run_with_tui.py)*)
(*     with the optimization thread, the dashboard loop and stop_event.    *)
(* Spec is the campaign run by one thread; PoolSpec and FairContentionSpec *)
(* are the ResourceManager under several clients; ObservationSpec is       *)
(* add_observation on its own; IngestSpec is the ingestion and retraining  *)
(* of one SurrogateOracle by several threads of objective; RunTestSpec is  *)
(* run_test called trial after trial, ConcurrentRunTestSpec run_test       *)
(* called by several threads at once; FairScriptSpec is an entry script    *)
(* with its two threads.                                                   *)
(***************************************************************************)
EXTENDS Integers, Sequences, FiniteSets, TLC

\* ------------------------------------------------------------------ bounds
\* number of threads that use lease() concurrently on one ResourceManager
NumClients == 3
\* orchestrator.py:203  run(n_trials=50, n_jobs=1): the threads of
\* study.optimize that call objective in the campaign
NumJobs == 1
\* concurrent invocations of CarMakerInterface.run_test
NumRuns == 2
\* invocations of run_test that are started in all
MaxRunTests == 3
\* 1 s polls of run_test's loop before its deadline
MaxPolls == 2
\* largest max_licenses a ResourceManager is built with (0 .. MaxLicenses)
MaxLicenses == 1
\* n_trials handed to study.optimize
MaxTrials == 10
\* number of lease calls whose acquire step may be interrupted
MaxFaults == 1
\* number of threads that ingest results concurrently (n_jobs > 1)
NumIngestThreads == 2
\* trials started while the ingesting threads are watched
MaxIngestTrials == 5
\* longest sequence of add_observation calls
MaxObs == 3

Clients == 1 .. NumClients
Jobs == 1 .. NumJobs
IngestThreads == 1 .. NumIngestThreads
Runs == 1 .. NumRuns

\* ------------------------------------------------------- program constants
\* orchestrator.py:35  ResourceManager(start_port=16660, ...)
StartPort == 16660
\* orchestrator.py:66 / 146 / 174  the 999.0 penalty cost
PenaltyCost == 99900
\* surrogate.py:87  train() needs at least 5 observations
MinTrainPoints == 5
\* surrogate.py:141  sigma > 0.5
SigmaCeiling == 50
\* surrogate.py:117  uncertainty reported by an untrained oracle (100.0)
UntrainedUncertainty == 10000
\* data_handler.py:31  float('inf') of fail_kpis: larger than every finite cost
Infinity == 1000000000
\* surrogate.py:73  cost >= 900.0 marks a failed run
FailureThreshold == 90000
\* surrogate.py:55  SOFT_FAILURE_COST = 150.0
SoftFailureCost == 15000
\* SurrogateOracle.train_frequency, read at orchestrator.py:119.  The class in
\* surrogate.py does not set it (nor max_trusted_distance, which line 92 only
\* logs); it is taken to be the configured retraining period.
TrainFrequency == 5

\* values the fitted Gaussian process may predict (mean, standard deviation)
MuVals == {5900, 6200}
SigmaVals == {0, 40, 80}
\* lap time measured by a successful run
MeasuredCosts == {6000}
\* np.random.normal(0, 1.0) of surrogate.py:75: a few draws around 0
NoiseVals == {-300, 0, 300}
\* costs add_observation may be called with: lap times up to the threshold,
\* the 999.0 penalty and the float('inf') of fail_kpis
CostInputs == {6000, FailureThreshold - 1, FailureThreshold, PenaltyCost, Infinity}
\* statuses run_simulation reports
SimStatuses == {"SUCCESS", "PRUNED", "FAILED"}

NoPort == 0
NoValue == <<>>

Min(a, b) == IF a < b THEN a ELSE b

VARIABLES
    max_licenses,     \* ResourceManager.max_licenses
    available_ports,  \* ResourceManager.available_ports (FIFO queue)
    license_semaphore,\* counter of ResourceManager.license_semaphore
    pc,               \* position of each worker thread
    port,             \* lease(): local variable port (NoPort = None)
    acquired,         \* this lease call got through license_semaphore.acquire()
    releases,         \* number of license_semaphore.release() of this lease call
    puts,             \* number of available_ports.put() of this lease call
    exc,              \* exception raised in this call of lease / its body ("none" if none)
    run_real_sim,     \* objective(): local run_real_sim
    predicted_vals,   \* objective(): local predicted_vals (cost component)
    sim_res,          \* _run_carmaker_simulation(): sim_res["status"]
    res,              \* objective(): res (cost component)
    ret,              \* what objective handed to the search algorithm
    ran_sim,          \* this call of objective entered _run_carmaker_simulation
    lease_calls,      \* number of lease() calls made by this call of objective
    trust,            \* objective(): what evaluate_trust returned (NoTrust: not called)
    train_called,     \* this call of objective invoked surrogate.train()
    snapshot,         \* train(): lengths of the X and y arrays it built (lines 90-91)
    user_attrs,       \* trial.user_attrs of the current trial: keys source, fidelity
    n_trials,         \* len(study.trials)
    study_best,       \* minimum first objective over the recorded trials
    n_obs,            \* len(surrogate.X_history)
    y_history,        \* surrogate.y_history, kept value by value where the
                      \* stored targets matter; the campaign keeps its length n_obs
    n_returned,       \* calls of objective that returned the outcome of a real run
    n_admitted,       \* calls of objective that took the branch of the real run
    is_trained,       \* surrogate.is_trained
    faults,           \* number of acquire steps interrupted so far
    rt_pc,            \* position of each invocation of CarMakerInterface.run_test
    trial_id,         \* run_test(): argument trial_id of the current invocation
    next_trial,       \* trial_id the next invocation will be given
    process,          \* run_test(): state of the child started by Popen
    tcl,              \* how far the child has got in launch_sim.tcl
    killed_by,        \* the invocation whose kill_carmaker() killed the child (0: none)
    elapsed,          \* run_test(): seconds since sim_start_time, in 1 s polls
    status,           \* run_test(): 'status' of the returned dict ("none": no dict)
    lap_of,           \* trial whose child wrote the returned 'lap_time' (0: none)
    cause,            \* why the invocation ended
    debug_log,        \* PROJECT_DIR/debug_tcl.txt, one file for all trials
    user_log,         \* newest log file of SimOutput/<user folder>/Log
    script,           \* which entry script runs: run_real_optimization or run_with_tui
    opt_pc,           \* position of run_optimization_thread
    main_pc,          \* position of the main thread of the script
    stop_event,       \* threading.Event stop_event
    interrupted       \* the operator has interrupted the script (KeyboardInterrupt)

poolVars == <<max_licenses, available_ports, license_semaphore>>
leaseVars == <<port, acquired, releases, puts, exc>>
trialVars == <<run_real_sim, predicted_vals, sim_res, res, ret, ran_sim, lease_calls,
              trust, train_called, snapshot, user_attrs>>
studyVars == <<n_trials, study_best, n_obs, y_history, n_returned, n_admitted,
              is_trained>>
superVars == <<rt_pc, trial_id, next_trial, process, tcl, killed_by, elapsed, status,
              lap_of, cause, debug_log, user_log>>
scriptVars == <<script, opt_pc, main_pc, stop_event, interrupted>>
campaignVars == <<poolVars, pc, leaseVars, trialVars, studyVars, faults>>
vars == <<max_licenses, available_ports, license_semaphore, pc, port, acquired,
          releases, puts, exc, run_real_sim, predicted_vals, sim_res, res, ret,
          ran_sim, lease_calls, trust, train_called, snapshot, user_attrs,
          n_trials, study_best, n_obs, y_history, n_returned, n_admitted, is_trained,
          faults, rt_pc, trial_id, next_trial, process, tcl, killed_by, elapsed,
          status, lap_of, cause, debug_log, user_log, script, opt_pc, main_pc,
          stop_event, interrupted>>

Workers == DOMAIN pc

NoRet == [kind |-> "none", cost |-> 0]

\* no call of evaluate_trust in this call of objective
NoTrust == [pred |-> 0, unc |-> -1, flag |-> TRUE]

\* train() has not built its arrays in this call of objective
NoSnapshot == [x |-> 0, y |-> 0]

\* user_attrs of a trial on which neither "source" nor "fidelity" has been set
NoAttrs == [source |-> "unset", fidelity |-> "unset"]


\* ------------------------------------------------------ ResourceManager
\* __init__ with one slot too many (range(max_licenses + 1), Semaphore(max_licenses + 1))
ResourceManagerInitExtraSlot(start_port, n) ==
    [ports |-> [i \in 1 .. n + 1 |-> start_port + (i - 1)],
     sem   |-> n + 1,
     max   |-> n]

\* ResourceManager.__init__: the queue holds start_port .. start_port + n - 1,
\* the semaphore starts at n
ResourceManagerInit(start_port, n) ==
    [ports |-> [i \in 1 .. n |-> start_port + (i - 1)],
     sem   |-> n,
     max   |-> n]

\* a get() that reads the head of the queue without removing it
QueuePeekOnly(q) == q

\* what available_ports.get() leaves in the queue
QueueAfterGet(q) == Tail(q)

\* lease(), lines 42-43: port = None; nothing acquired yet
LeaseEntry(w) ==
    /\ port' = [port EXCEPT ![w] = NoPort]
    /\ acquired' = [acquired EXCEPT ![w] = FALSE]
    /\ releases' = [releases EXCEPT ![w] = 0]
    /\ puts' = [puts EXCEPT ![w] = 0]
    /\ exc' = [exc EXCEPT ![w] = "none"]

\* lease(), line 49: license_semaphore.acquire() blocks while the counter is 0
LeaseAcquire(w) ==
    /\ pc[w] = "lease_acquire"
    /\ license_semaphore > 0
    /\ license_semaphore' = license_semaphore - 1
    /\ acquired' = [acquired EXCEPT ![w] = TRUE]
    /\ pc' = [pc EXCEPT ![w] = "lease_get"]
    /\ UNCHANGED <<max_licenses, available_ports, port, releases, puts, exc,
                   trialVars, studyVars, faults, superVars, scriptVars>>

\* lease(), lines 45-49: an exception raised inside the try block before
\* acquire() has returned (the proxy call fails, the thread is interrupted);
\* control goes to the finally block with nothing acquired
LeaseAcquireInterrupted(w) ==
    /\ pc[w] = "lease_acquire"
    /\ faults < MaxFaults
    /\ faults' = faults + 1
    /\ exc' = [exc EXCEPT ![w] = "AcquireError"]
    /\ pc' = [pc EXCEPT ![w] = "lease_finally"]
    /\ UNCHANGED <<poolVars, port, acquired, releases, puts, trialVars, studyVars,
                   superVars, scriptVars>>

\* lease(), line 53: available_ports.get(timeout=5) returns the head of the queue
LeaseGetPort(w) ==
    /\ pc[w] = "lease_get"
    /\ available_ports # <<>>
    /\ port' = [port EXCEPT ![w] = Head(available_ports)]
    /\ available_ports' = QueueAfterGet(available_ports)
    /\ pc' = [pc EXCEPT ![w] = "body"]
    /\ UNCHANGED <<max_licenses, license_semaphore, acquired, releases, puts, exc,
                   trialVars, studyVars, faults, superVars, scriptVars>>

\* lease(), lines 54-57: the queue stayed empty for the 5 s timeout:
\* queue.Empty, then raise ResourceWarning("Port Pool Exhaustion")
LeasePortEmpty(w) ==
    /\ pc[w] = "lease_get"
    /\ available_ports = <<>>
    /\ exc' = [exc EXCEPT ![w] = "ResourceWarning"]
    /\ pc' = [pc EXCEPT ![w] = "lease_finally"]
    /\ UNCHANGED <<poolVars, port, acquired, releases, puts, trialVars, studyVars, faults, superVars, scriptVars>>

\* a finally block that never puts the port back (inverted "port is not None")
LeaseFinallyPutLeak(w) ==
    /\ pc[w] = "lease_finally"
    /\ pc' = [pc EXCEPT ![w] = "lease_release"]
    /\ UNCHANGED <<poolVars, port, acquired, releases, puts, exc, trialVars, studyVars, faults, superVars, scriptVars>>

\* lease(), lines 64-68: finally: if port is not None: available_ports.put(port)
LeaseFinallyPut(w) ==
    /\ pc[w] = "lease_finally"
    /\ IF port[w] # NoPort
       THEN /\ available_ports' = Append(available_ports, port[w])
            /\ puts' = [puts EXCEPT ![w] = @ + 1]
       ELSE UNCHANGED <<available_ports, puts>>
    /\ pc' = [pc EXCEPT ![w] = "lease_release"]
    /\ UNCHANGED <<max_licenses, license_semaphore, port, acquired, releases, exc,
                   trialVars, studyVars, faults, superVars, scriptVars>>

\* lease(), line 70: license_semaphore.release(), whatever was acquired
LeaseFinallyRelease(w) ==
    /\ pc[w] = "lease_release"
    /\ license_semaphore' = license_semaphore + 1
    /\ releases' = [releases EXCEPT ![w] = @ + 1]
    /\ pc' = [pc EXCEPT ![w] = "after_lease"]
    /\ UNCHANGED <<max_licenses, available_ports, port, acquired, puts, exc,
                   trialVars, studyVars, faults, superVars, scriptVars>>


\* ------------------------------------------------------ SurrogateOracle
\* evaluate_trust without the uncertainty term of line 141
evaluate_trust_no_ceiling(trained, mu, sigma, ei_gt) ==
    IF ~trained
    THEN [pred |-> 0, unc |-> UntrainedUncertainty, flag |-> TRUE]
    ELSE [pred |-> mu, unc |-> sigma, flag |-> ei_gt /\ sigma > 0]

\* evaluate_trust (surrogate.py 105-144): (prediction, uncertainty, flag).
\* mu, sigma are what model.predict returns; ei_gt says whether the expected
\* improvement computed from them exceeds 0.001 (it is 0 when sigma <= 0).
evaluate_trust(trained, mu, sigma, ei_gt) ==
    IF ~trained
    THEN [pred |-> 0, unc |-> UntrainedUncertainty, flag |-> TRUE]
    ELSE [pred |-> mu, unc |-> sigma,
          flag |-> (ei_gt /\ sigma > 0) \/ sigma > SigmaCeiling]

\* DeltaLearner.predict_bias (delta_learner.py 45-55): nothing in the scheduler
\* calls ingest_real_data, so is_active stays False and the bias is (0.0, 0.0)
predict_bias == [mean |-> 0, std |-> 0]

\* orchestrator.py 83-84: the record to beat, 999.0 while no trial has a value
current_record == IF study_best = NoValue THEN PenaltyCost ELSE study_best[1]

\* orchestrator.py 80 and 88, scaled by 100: all uncertainties are >= 0 and the
\* bias deviation is 0, so sqrt(phys^2 + bias_std^2) is phys + bias_std
lcb_times_100(corrected_time, total_uncertainty) ==
    100 * corrected_time - 196 * total_uncertainty

\* run_real_sim initialised to False
RunRealSimDefaultFalse == FALSE

\* orchestrator.py 65: run_real_sim = True before the gate is consulted
RunRealSimDefault == TRUE

\* a decision matrix that looks at the optimistic bound only
GateAdmitsIgnoringFlag(flag, lcb100, record) ==
    IF lcb100 < 100 * record THEN TRUE ELSE FALSE

\* orchestrator.py 90-109: the decision matrix; TRUE = run the real simulation
GateAdmits(flag, lcb100, record) ==
    IF flag THEN TRUE
    ELSE IF lcb100 < 100 * record THEN TRUE
    ELSE FALSE

\* a soft prune that leaves predicted_vals at its default of line 66
SoftPruneValueDefault(corrected_time) == PenaltyCost

\* orchestrator.py 107: predicted_vals = (corrected_time, pred_res[1])
SoftPruneValue(corrected_time) == corrected_time

\* orchestrator.py 112-125: return res after a real run, predicted_vals otherwise
ObjectiveReturn(real, r, predicted) ==
    IF real THEN [kind |-> "measured", cost |-> r]
    ELSE [kind |-> "predicted", cost |-> predicted]

\* the execution branch taken for every trial, skipped or not
TakesRealBranchAlways(real) == TRUE

\* orchestrator.py 112: if run_real_sim
TakesRealBranch(real) == real

\* ------------------------------------------------- OptimizationOrchestrator
\* objective, line 109, in the soft-prune branch:
\* trial.set_user_attr("fidelity", "surrogate_corrected")
SoftPruneAttrs(attrs) == [attrs EXCEPT !.fidelity = "surrogate_corrected"]

\* _run_carmaker_simulation, lines 156-158, after process_results:
\* trial.set_user_attr("source", "CarMaker"); set_user_attr("fidelity", "high")
MeasuredAttrs(attrs) == [attrs EXCEPT !.source = "CarMaker", !.fidelity = "high"]

\* objective, lines 52-109: a new trial is handed to objective; the gate sets
\* run_real_sim and predicted_vals
ObjectiveGate(w) ==
    /\ pc[w] = "idle"
    /\ n_trials < MaxTrials
    /\ n_trials' = n_trials + 1
    /\ IF is_trained
       THEN \E mu \in MuVals, sigma \in SigmaVals, ei_gt \in BOOLEAN :
              LET trust_w == evaluate_trust(is_trained, mu, sigma, ei_gt)
                  corrected_time == trust_w.pred + predict_bias.mean
                  total_uncertainty == trust_w.unc + predict_bias.std
                  admit == GateAdmits(trust_w.flag,
                                      lcb_times_100(corrected_time, total_uncertainty),
                                      current_record)
              IN /\ trust' = [trust EXCEPT ![w] = trust_w]
                 /\ run_real_sim' = [run_real_sim EXCEPT ![w] = admit]
                 /\ predicted_vals' = [predicted_vals EXCEPT ![w] =
                                          IF admit THEN PenaltyCost
                                          ELSE SoftPruneValue(corrected_time)]
                 /\ user_attrs' = [user_attrs EXCEPT ![w] =
                                      IF admit THEN @ ELSE SoftPruneAttrs(@)]
       ELSE /\ trust' = trust
            /\ run_real_sim' = [run_real_sim EXCEPT ![w] = RunRealSimDefault]
            /\ predicted_vals' = [predicted_vals EXCEPT ![w] = PenaltyCost]
            /\ user_attrs' = user_attrs
    /\ pc' = [pc EXCEPT ![w] = "exec"]
    /\ UNCHANGED <<poolVars, leaseVars, sim_res, res, ret, ran_sim, lease_calls,
                   train_called, snapshot, study_best, n_obs, y_history,
                   n_returned, n_admitted, is_trained, faults, superVars, scriptVars>>

\* objective, line 70: evaluate_trust has no except clause, so an exception of
\* model.predict (surrogate.py 122) or of the statements after it (129-137)
\* leaves objective, which has none either; run_real_sim is still the default
ObjectiveGateRaises(w) ==
    /\ pc[w] = "idle"
    /\ n_trials < MaxTrials
    /\ is_trained
    /\ n_trials' = n_trials + 1
    /\ run_real_sim' = [run_real_sim EXCEPT ![w] = RunRealSimDefault]
    /\ ret' = [ret EXCEPT ![w] = [kind |-> "error", cost |-> 0]]
    /\ pc' = [pc EXCEPT ![w] = "returned"]
    /\ UNCHANGED <<poolVars, leaseVars, predicted_vals, sim_res, res, ran_sim,
                   lease_calls, trust, train_called, snapshot, user_attrs, study_best, n_obs,
                   y_history, n_returned, n_admitted, is_trained, faults, superVars, scriptVars>>

\* a soft-skip branch that also stores its value as an observation
ObjectiveSoftSkipIngests(w) ==
    /\ pc[w] = "exec"
    /\ ~TakesRealBranch(run_real_sim[w])
    /\ n_obs' = n_obs + 1
    /\ ret' = [ret EXCEPT ![w] = ObjectiveReturn(run_real_sim[w], res[w], predicted_vals[w])]
    /\ pc' = [pc EXCEPT ![w] = "returned"]
    /\ UNCHANGED <<poolVars, leaseVars, run_real_sim, predicted_vals, sim_res, res,
                   ran_sim, lease_calls, trust, train_called, snapshot, user_attrs, n_trials,
                   study_best, y_history, n_returned, n_admitted, is_trained, faults, superVars, scriptVars>>

\* objective, lines 123-125: the soft-skip branch returns predicted_vals
ObjectiveSoftSkip(w) ==
    /\ pc[w] = "exec"
    /\ ~TakesRealBranch(run_real_sim[w])
    /\ ret' = [ret EXCEPT ![w] = ObjectiveReturn(run_real_sim[w], res[w], predicted_vals[w])]
    /\ pc' = [pc EXCEPT ![w] = "returned"]
    /\ UNCHANGED <<poolVars, leaseVars, run_real_sim, predicted_vals, sim_res, res,
                   ran_sim, lease_calls, trust, train_called, snapshot, user_attrs, studyVars,
                   faults, superVars, scriptVars>>

\* _run_carmaker_simulation, lines 129-135: create_run_configuration succeeded,
\* sim_res = PENDING, and lease() is entered
RunSimEnter(w) ==
    /\ pc[w] = "exec"
    /\ TakesRealBranch(run_real_sim[w])
    /\ ran_sim' = [ran_sim EXCEPT ![w] = TRUE]
    /\ lease_calls' = [lease_calls EXCEPT ![w] = @ + 1]
    /\ sim_res' = [sim_res EXCEPT ![w] = "PENDING"]
    /\ LeaseEntry(w)
    /\ n_admitted' = n_admitted + 1
    /\ pc' = [pc EXCEPT ![w] = "lease_acquire"]
    /\ UNCHANGED <<poolVars, run_real_sim, predicted_vals, res, ret, trust,
                   train_called, snapshot, user_attrs, n_trials, study_best, n_obs, y_history,
                   n_returned, is_trained, faults, superVars, scriptVars>>

\* _run_carmaker_simulation, lines 130-132 and 172-174: create_run_configuration
\* raises; the except clause returns the penalty without a lease
RunSimConfigFails(w) ==
    /\ pc[w] = "exec"
    /\ TakesRealBranch(run_real_sim[w])
    /\ ran_sim' = [ran_sim EXCEPT ![w] = TRUE]
    /\ res' = [res EXCEPT ![w] = PenaltyCost]
    /\ n_admitted' = n_admitted + 1
    /\ pc' = [pc EXCEPT ![w] = "ingest"]
    /\ UNCHANGED <<poolVars, leaseVars, run_real_sim, predicted_vals, sim_res, ret,
                   lease_calls, trust, train_called, snapshot, user_attrs, n_trials, study_best,
                   n_obs, y_history, n_returned, is_trained, faults, superVars, scriptVars>>

\* a with block that is still open when run_simulation has returned: the
\* statements after it run inside the lease
RunSimulationKeepsLease(w) ==
    /\ pc[w] = "body"
    /\ \E st \in SimStatuses : sim_res' = [sim_res EXCEPT ![w] = st]
    /\ pc' = [pc EXCEPT ![w] = "after_lease"]
    /\ UNCHANGED <<poolVars, leaseVars, run_real_sim, predicted_vals, res, ret,
                   ran_sim, lease_calls, trust, train_called, snapshot, user_attrs, studyVars,
                   faults, superVars, scriptVars>>

\* _run_carmaker_simulation, lines 137-143: the body of the with block; the
\* evaluator behind interface.run_simulation is opaque: it reports a status
\* or raises
RunSimulation(w) ==
    /\ pc[w] = "body"
    /\ \/ \E st \in SimStatuses :
            /\ sim_res' = [sim_res EXCEPT ![w] = st]
            /\ exc' = exc
       \/ /\ exc' = [exc EXCEPT ![w] = "SimError"]
          /\ sim_res' = sim_res
    /\ pc' = [pc EXCEPT ![w] = "lease_finally"]
    /\ UNCHANGED <<poolVars, port, acquired, releases, puts, run_real_sim,
                   predicted_vals, res, ret, ran_sim, lease_calls, trust,
                   train_called, snapshot, user_attrs, studyVars, faults, superVars, scriptVars>>

\* _run_carmaker_simulation, lines 145-174, after the with block has been left
RunSimAfterLease(w) ==
    /\ pc[w] = "after_lease"
    /\ IF exc[w] # "none"
       THEN \* 172-174: except Exception: return 999.0, 99.0
            /\ res' = [res EXCEPT ![w] = PenaltyCost]
            /\ pc' = [pc EXCEPT ![w] = "ingest"]
            /\ UNCHANGED <<ret, user_attrs>>
       ELSE IF sim_res[w] = "PRUNED"
       THEN \* 145 and 170-171: raise optuna.TrialPruned(), re-raised to the caller
            /\ ret' = [ret EXCEPT ![w] = [kind |-> "pruned", cost |-> 0]]
            /\ pc' = [pc EXCEPT ![w] = "returned"]
            /\ UNCHANGED <<res, user_attrs>>
       ELSE IF sim_res[w] # "SUCCESS"
       THEN \* 146
            /\ res' = [res EXCEPT ![w] = PenaltyCost]
            /\ pc' = [pc EXCEPT ![w] = "ingest"]
            /\ UNCHANGED <<ret, user_attrs>>
       ELSE \* 149-168: cost = kpis.get("cost", 999.0) of process_results (the
            \* float('inf') of fail_kpis when the extractor failed), then the
            \* attributes of lines 156-158
            /\ \E c \in MeasuredCosts \cup {Infinity} :
                   res' = [res EXCEPT ![w] = c]
            /\ user_attrs' = [user_attrs EXCEPT ![w] = MeasuredAttrs(@)]
            /\ pc' = [pc EXCEPT ![w] = "ingest"]
            /\ ret' = ret
    /\ UNCHANGED <<poolVars, leaseVars, run_real_sim, predicted_vals, sim_res,
                   ran_sim, lease_calls, trust, train_called, snapshot, studyVars,
                   faults, superVars, scriptVars>>

\* add_observation whose test for a failed run is cost > 900.0
add_observation_above_only(cost, noise) ==
    IF cost > FailureThreshold THEN SoftFailureCost + noise ELSE cost

\* SurrogateOracle.add_observation (surrogate.py 72-79): the target that is
\* stored for a cost; noise is the draw of np.random.normal(0, 1.0)
add_observation(cost, noise) ==
    IF cost >= FailureThreshold THEN SoftFailureCost + noise ELSE cost

\* SurrogateOracle.train (surrogate.py 81-103): needs MinTrainPoints points;
\* the fit succeeds (is_trained = True) or raises and is logged
train(trained, n, fit_ok) ==
    IF n < MinTrainPoints THEN trained
    ELSE IF fit_ok THEN TRUE
    ELSE trained

\* orchestrator.py 119: if len(self.study.trials) % train_frequency == 0
TrainDue(trials) == trials % TrainFrequency = 0

\* objective, lines 116-122 taken as one step: add_observation, periodic
\* train, return res
ObjectiveIngest(w) ==
    /\ pc[w] = "ingest"
    /\ n_obs' = n_obs + 1
    /\ train_called' = [train_called EXCEPT ![w] = TrainDue(n_trials)]
    /\ IF TrainDue(n_trials)
       THEN \E fit_ok \in BOOLEAN : is_trained' = train(is_trained, n_obs', fit_ok)
       ELSE is_trained' = is_trained
    /\ ret' = [ret EXCEPT ![w] = ObjectiveReturn(run_real_sim[w], res[w], predicted_vals[w])]
    /\ n_returned' = n_returned + 1
    /\ pc' = [pc EXCEPT ![w] = "returned"]
    /\ UNCHANGED <<poolVars, leaseVars, run_real_sim, predicted_vals, sim_res, res,
                   ran_sim, lease_calls, trust, snapshot, user_attrs, n_trials, study_best,
                   y_history, n_admitted, faults, superVars, scriptVars>>

\* the locals of objective and _run_carmaker_simulation go out of scope
TrialLocalsCleared(w) ==
    /\ run_real_sim' = [run_real_sim EXCEPT ![w] = TRUE]
    /\ predicted_vals' = [predicted_vals EXCEPT ![w] = PenaltyCost]
    /\ sim_res' = [sim_res EXCEPT ![w] = "PENDING"]
    /\ res' = [res EXCEPT ![w] = 0]
    /\ ret' = [ret EXCEPT ![w] = NoRet]
    /\ ran_sim' = [ran_sim EXCEPT ![w] = FALSE]
    /\ lease_calls' = [lease_calls EXCEPT ![w] = 0]
    /\ trust' = [trust EXCEPT ![w] = NoTrust]
    /\ train_called' = [train_called EXCEPT ![w] = FALSE]
    /\ snapshot' = [snapshot EXCEPT ![w] = NoSnapshot]
    /\ user_attrs' = [user_attrs EXCEPT ![w] = NoAttrs]

\* study.optimize records the value objective returned; a pruned trial has
\* none; any other exception of objective is re-raised by optimize (catch is
\* empty, orchestrator.py 206-208) and the thread takes no further trial
TrialDone(w) ==
    /\ pc[w] = "returned"
    /\ study_best' =
          IF ret[w].kind \in {"measured", "predicted"}
          THEN <<Min(current_record, ret[w].cost)>>
          ELSE study_best
    /\ pc' = [pc EXCEPT ![w] = IF ret[w].kind = "error" THEN "stopped" ELSE "idle"]
    /\ LeaseEntry(w)
    /\ TrialLocalsCleared(w)
    /\ UNCHANGED <<poolVars, n_trials, n_obs, y_history, n_returned, n_admitted,
                   is_trained, faults, superVars, scriptVars>>

\* a debug_tcl.txt that does not exist; a log folder without a log file
NoDebugLog == [trial |-> 0, time_of |-> 0, fatal |-> FALSE]
NoUserLog == [trial |-> 0, after |-> {}]

\* CarMakerInterface.__init__ (carmaker_interface.py 10-23): no invocation of
\* run_test yet, no child, no file written by a trial
InitSupervisor(runs) ==
    /\ rt_pc = [r \in runs |-> "idle"]
    /\ trial_id = [r \in runs |-> 0]
    /\ next_trial = 1
    /\ process = [r \in runs |-> "none"]
    /\ tcl = [r \in runs |-> "none"]
    /\ killed_by = [r \in runs |-> 0]
    /\ elapsed = [r \in runs |-> 0]
    /\ status = [r \in runs |-> "none"]
    /\ lap_of = [r \in runs |-> 0]
    /\ cause = [r \in runs |-> "none"]
    /\ debug_log = NoDebugLog
    /\ user_log = NoUserLog

\* the entry script before its threads are started: stop_event =
\* threading.Event() (run_real_optimization.py 83, run_with_tui.py 84)
InitScript ==
    /\ script = "none"
    /\ opt_pc = "none"
    /\ main_pc = "none"
    /\ stop_event = FALSE
    /\ interrupted = FALSE

\* ------------------------------------------------------------ the campaign
\* the state after construction: a ResourceManager with n licences, an empty
\* untrained SurrogateOracle, and the given threads about to start
InitCampaign(threads, n) ==
    LET rm == ResourceManagerInit(StartPort, n)
    IN  /\ max_licenses = rm.max
        /\ available_ports = rm.ports
        /\ license_semaphore = rm.sem
        /\ pc = [w \in threads |-> "idle"]
        /\ port = [w \in threads |-> NoPort]
        /\ acquired = [w \in threads |-> FALSE]
        /\ releases = [w \in threads |-> 0]
        /\ puts = [w \in threads |-> 0]
        /\ exc = [w \in threads |-> "none"]
        /\ run_real_sim = [w \in threads |-> TRUE]
        /\ predicted_vals = [w \in threads |-> PenaltyCost]
        /\ sim_res = [w \in threads |-> "PENDING"]
        /\ res = [w \in threads |-> 0]
        /\ ret = [w \in threads |-> NoRet]
        /\ ran_sim = [w \in threads |-> FALSE]
        /\ lease_calls = [w \in threads |-> 0]
        /\ trust = [w \in threads |-> NoTrust]
        /\ train_called = [w \in threads |-> FALSE]
        /\ snapshot = [w \in threads |-> NoSnapshot]
        /\ user_attrs = [w \in threads |-> NoAttrs]
        /\ n_trials = 0
        /\ study_best = NoValue
        /\ n_obs = 0
        /\ y_history = <<>>
        /\ n_returned = 0
        /\ n_admitted = 0
        /\ is_trained = FALSE
        /\ faults = 0

\* the campaign's objects together with an idle CarMakerInterface and an
\* entry script that has not started its threads
InitWith(threads, n) ==
    /\ InitCampaign(threads, n)
    /\ InitSupervisor(Jobs)
    /\ InitScript

\* OptimizationOrchestrator.__init__ (orchestrator.py 23-50) with n_workers = n,
\* then run(n_trials = MaxTrials, n_jobs = NumJobs)
Init == \E n \in 0 .. MaxLicenses : InitWith(Jobs, n)

Next ==
    \E w \in Jobs :
        \/ ObjectiveGate(w)
        \/ ObjectiveGateRaises(w)
        \/ ObjectiveSoftSkip(w)
        \/ RunSimEnter(w)
        \/ RunSimConfigFails(w)
        \/ LeaseAcquire(w)
        \/ LeaseAcquireInterrupted(w)
        \/ LeaseGetPort(w)
        \/ LeasePortEmpty(w)
        \/ RunSimulation(w)
        \/ LeaseFinallyPut(w)
        \/ LeaseFinallyRelease(w)
        \/ RunSimAfterLease(w)
        \/ ObjectiveIngest(w)
        \/ TrialDone(w)

Spec == Init /\ [][Next]_vars


\* ------------------------------------------- the ResourceManager on its own
\* a thread enters "with resources.lease(run_id) as port:" (orchestrator.py 135)
ClientEnter(w) ==
    /\ pc[w] = "idle"
    /\ LeaseEntry(w)
    /\ pc' = [pc EXCEPT ![w] = "lease_acquire"]
    /\ UNCHANGED <<poolVars, trialVars, studyVars, faults, superVars, scriptVars>>

\* the body of the with block (orchestrator.py 137-143) returns or raises
ClientBody(w) ==
    /\ pc[w] = "body"
    /\ \/ exc' = exc
       \/ exc' = [exc EXCEPT ![w] = "SimError"]
    /\ pc' = [pc EXCEPT ![w] = "lease_finally"]
    /\ UNCHANGED <<poolVars, port, acquired, releases, puts, trialVars, studyVars, faults, superVars, scriptVars>>

\* the with statement has been left; the thread goes on to its next trial
ClientLeave(w) ==
    /\ pc[w] = "after_lease"
    /\ LeaseEntry(w)
    /\ pc' = [pc EXCEPT ![w] = "idle"]
    /\ UNCHANGED <<poolVars, trialVars, studyVars, faults, superVars, scriptVars>>

\* a ResourceManager(start_port = 16660, max_licenses = n) shared by the clients
InitPool == \E n \in 0 .. MaxLicenses : InitWith(Clients, n)

\* the steps of a client that are taken whenever they stay possible
ClientStep(w) ==
    \/ ClientEnter(w)
    \/ LeaseAcquire(w)
    \/ LeaseGetPort(w)
    \/ ClientBody(w)
    \/ LeaseFinallyPut(w)
    \/ LeaseFinallyRelease(w)
    \/ ClientLeave(w)

NextPool ==
    \E w \in Clients :
        \/ ClientEnter(w)
        \/ LeaseAcquire(w)
        \/ LeaseAcquireInterrupted(w)
        \/ LeaseGetPort(w)
        \/ LeasePortEmpty(w)
        \/ ClientBody(w)
        \/ LeaseFinallyPut(w)
        \/ LeaseFinallyRelease(w)
        \/ ClientLeave(w)

PoolSpec == InitPool /\ [][NextPool]_vars

\* lease and release under contention alone: no acquire step is interrupted
NextContention ==
    \E w \in Clients :
        \/ ClientEnter(w)
        \/ LeaseAcquire(w)
        \/ LeaseGetPort(w)
        \/ ClientBody(w)
        \/ LeaseFinallyPut(w)
        \/ LeaseFinallyRelease(w)
        \/ ClientLeave(w)

\* every thread keeps running: a step of a client that stays possible is
\* eventually taken.  The semaphore promises no order among its waiters.
FairContentionSpec ==
    InitPool /\ [][NextContention]_vars /\ \A w \in Clients : WF_vars(ClientStep(w))

\* ------------------------------------------- the SurrogateOracle on its own
\* one call add_observation(params, (cost, _)) on an oracle nobody else uses
AddObservation(cost, noise) ==
    /\ Len(y_history) < MaxObs
    /\ n_obs' = n_obs + 1
    /\ y_history' = Append(y_history, add_observation(cost, noise))
    /\ UNCHANGED <<poolVars, pc, leaseVars, trialVars, n_trials, study_best,
                   n_returned, n_admitted, is_trained, faults, superVars, scriptVars>>

\* SurrogateOracle() followed by any sequence of add_observation calls
InitObservation == InitWith(Jobs, 0)

NextObservation ==
    \E cost \in CostInputs, noise \in NoiseVals : AddObservation(cost, noise)

ObservationSpec == InitObservation /\ [][NextObservation]_vars

\* ------------------------------- ingestion by several threads of objective
\* objective, lines 112-114: a thread of study.optimize has been given a trial
\* and its real run has handed back res
IngestCall(w) ==
    /\ pc[w] = "idle"
    /\ n_trials < MaxIngestTrials
    /\ n_trials' = n_trials + 1
    /\ ran_sim' = [ran_sim EXCEPT ![w] = TRUE]
    /\ \E c \in MeasuredCosts : res' = [res EXCEPT ![w] = c]
    /\ n_admitted' = n_admitted + 1
    /\ pc' = [pc EXCEPT ![w] = "ingest"]
    /\ UNCHANGED <<poolVars, leaseVars, run_real_sim, predicted_vals, sim_res, ret,
                   lease_calls, trust, train_called, snapshot, user_attrs, study_best, n_obs,
                   y_history, n_returned, is_trained, faults, superVars, scriptVars>>

\* add_observation, lines 62-78: self.X_history.append(x_vec)
AddObservationX(w) ==
    /\ pc[w] = "ingest"
    /\ n_obs' = n_obs + 1
    /\ pc' = [pc EXCEPT ![w] = "add_y"]
    /\ UNCHANGED <<poolVars, leaseVars, trialVars, n_trials, study_best, y_history,
                   n_returned, n_admitted, is_trained, faults, superVars, scriptVars>>

\* add_observation, line 79: self.y_history.append(cost)
AddObservationY(w) ==
    /\ pc[w] = "add_y"
    /\ \E noise \in NoiseVals :
           y_history' = Append(y_history, add_observation(res[w], noise))
    /\ pc' = [pc EXCEPT ![w] = "train_check"]
    /\ UNCHANGED <<poolVars, leaseVars, trialVars, n_trials, study_best, n_obs,
                   n_returned, n_admitted, is_trained, faults, superVars, scriptVars>>

\* objective, lines 119-120: the test that decides whether train() is called
TrainCheck(w) ==
    /\ pc[w] = "train_check"
    /\ train_called' = [train_called EXCEPT ![w] = TrainDue(n_trials)]
    /\ pc' = [pc EXCEPT ![w] = IF TrainDue(n_trials) THEN "train" ELSE "ingest_return"]
    /\ UNCHANGED <<poolVars, leaseVars, run_real_sim, predicted_vals, sim_res, res,
                   ret, ran_sim, lease_calls, trust, snapshot, user_attrs, studyVars, faults, superVars, scriptVars>>

\* train, lines 87-91: return while there are fewer than 5 rows, else build
\* the arrays X and y from the two lists as they are now
TrainRead(w) ==
    /\ pc[w] = "train"
    /\ IF n_obs < MinTrainPoints
       THEN /\ snapshot' = snapshot
            /\ pc' = [pc EXCEPT ![w] = "ingest_return"]
       ELSE /\ snapshot' = [snapshot EXCEPT ![w] = [x |-> n_obs, y |-> Len(y_history)]]
            /\ pc' = [pc EXCEPT ![w] = "train_fit"]
    /\ UNCHANGED <<poolVars, leaseVars, run_real_sim, predicted_vals, sim_res, res,
                   ret, ran_sim, lease_calls, trust, train_called, user_attrs,
                   studyVars, faults, superVars, scriptVars>>

\* train, lines 93-103: model.fit(X, y); arrays of different lengths make fit
\* raise, which the except clause logs
TrainFit(w) ==
    /\ pc[w] = "train_fit"
    /\ \E fit_ok \in BOOLEAN :
           is_trained' = train(is_trained, snapshot[w].x,
                               fit_ok /\ snapshot[w].x = snapshot[w].y)
    /\ pc' = [pc EXCEPT ![w] = "ingest_return"]
    /\ UNCHANGED <<poolVars, leaseVars, trialVars, n_trials, study_best, n_obs,
                   y_history, n_returned, n_admitted, faults, superVars, scriptVars>>

\* objective, line 122: return res
IngestReturn(w) ==
    /\ pc[w] = "ingest_return"
    /\ ret' = [ret EXCEPT ![w] = ObjectiveReturn(run_real_sim[w], res[w], predicted_vals[w])]
    /\ n_returned' = n_returned + 1
    /\ pc' = [pc EXCEPT ![w] = "returned"]
    /\ UNCHANGED <<poolVars, leaseVars, run_real_sim, predicted_vals, sim_res, res,
                   ran_sim, lease_calls, trust, train_called, snapshot, user_attrs, n_trials,
                   study_best, n_obs, y_history, n_admitted, is_trained, faults, superVars, scriptVars>>

\* run(n_trials, n_jobs) with n_jobs = NumIngestThreads > 1 (orchestrator.py
\* 204-206): the threads share one SurrogateOracle
InitIngest == InitWith(IngestThreads, 0)

NextIngest ==
    \E w \in IngestThreads :
        \/ IngestCall(w)
        \/ AddObservationX(w)
        \/ AddObservationY(w)
        \/ TrainCheck(w)
        \/ TrainRead(w)
        \/ TrainFit(w)
        \/ IngestReturn(w)
        \/ TrialDone(w)

IngestSpec == InitIngest /\ [][NextIngest]_vars

\* ------------------------------------------------------------------ claims
InBody(w) == pc[w] = "body"

\* the ports a ResourceManager with max_licenses slots owns
AllPorts == {StartPort + i : i \in 0 .. max_licenses - 1}

\* w has taken port p from the queue and not yet put it back
Holds(w, p) == port[w] = p /\ pc[w] \in {"body", "lease_finally"}

InQueue(p) == Cardinality({i \in DOMAIN available_ports : available_ports[i] = p})

\* C1: the number of workers inside the body of "with resources.lease(...)"
\* never exceeds max_licenses, so with max_licenses holders in flight one more
\* lease call has not returned
C1_InBodyAtMostCapacity ==
    Cardinality({w \in Workers : InBody(w)}) <= max_licenses

C1_Witness ==
    /\ max_licenses >= 1
    /\ Cardinality({w \in Workers : InBody(w)}) = max_licenses
    /\ \E w \in Workers : pc[w] = "lease_acquire" /\ license_semaphore = 0

C3_ReleaseMatchesAcquire ==
    /\ \A w \in Workers :
          pc[w] = "after_lease" =>
             /\ releases[w] = (IF acquired[w] THEN 1 ELSE 0)
             /\ puts[w] = (IF port[w] # NoPort THEN 1 ELSE 0)
    /\ license_semaphore <= max_licenses

\* C4: with at least one licence, every worker waiting in lease eventually
\* gets a port, whatever the other workers do
C4_LeaseStarvationFree ==
    \A w \in Clients :
        (max_licenses >= 1 /\ pc[w] = "lease_acquire") ~> InBody(w)

\* C5: with max_licenses = 0 a lease call ends with an error the caller sees
C5_ZeroCapacityLeaseFails ==
    \A w \in Clients :
        (max_licenses = 0 /\ pc[w] = "lease_acquire") ~> (exc[w] # "none")

\* C6: under contention alone (no acquire step interrupted) the available
\* queue holds at least as many ports as there are free permits, a worker that
\* got a permit finds a port, and "License acquired but no Port" is never raised
C6_PortsCoverFreePermits ==
    faults = 0 =>
       /\ Len(available_ports) >= license_semaphore
       /\ \A w \in Workers :
             /\ pc[w] = "lease_get" => available_ports # <<>>
             /\ exc[w] # "ResourceWarning"

C6_Witness ==
    /\ faults = 0
    /\ max_licenses >= 1
    /\ \E v, w \in Workers :
          /\ pc[v] = "lease_get"
          /\ pc[w] = "lease_acquire"
          /\ license_semaphore = 0

\* C7: a "Port Pool Exhaustion" error of lease is fatal: the trial in which
\* it was raised does not end with an outcome returned to the search
C7_PoolErrorIsFatal ==
    \A w \in Workers : exc[w] = "ResourceWarning" => ret[w].kind # "measured"

LeasePcs == {"lease_acquire", "lease_get", "body", "lease_finally",
             "lease_release", "after_lease"}

\* C8: a soft-skipped trial never calls lease, takes no permit and no port,
\* and its steps leave the pool as it was
C8_SoftSkipLeavesPoolUntouched ==
    /\ [](\A w \in Workers :
            ~run_real_sim[w] =>
               /\ lease_calls[w] = 0
               /\ pc[w] \notin LeasePcs
               /\ port[w] = NoPort /\ ~acquired[w])
    /\ [][\A w \in Workers :
            (~run_real_sim[w] /\ pc'[w] # pc[w]) => UNCHANGED poolVars]_vars

C8_Witness ==
    \E w \in Workers :
        pc[w] = "returned" /\ ret[w].kind = "predicted" /\ lease_calls[w] = 0

\* C9: while the surrogate is untrained objective admits every candidate and
\* returns no predicted outcome
C9_UntrainedNeverPredicted ==
    ~is_trained =>
        \A w \in Workers : run_real_sim[w] /\ ret[w].kind # "predicted"

C9_Witness ==
    /\ ~is_trained
    /\ \E w \in Workers : pc[w] = "returned" /\ ret[w].kind = "measured"

\* C10: a call of objective that has ended either returned a predicted value
\* or went through _run_carmaker_simulation, never both and never neither
C10_ExactlyOnePath ==
    \A w \in Workers :
        pc[w] = "returned" =>
           /\ (ret[w].kind = "predicted") # ran_sim[w]
           /\ ran_sim[w] = run_real_sim[w]

\* C11: when the evaluator of an admitted trial failed (it raised, or it
\* reported a status other than SUCCESS, the early abort PRUNED included),
\* objective returns the penalty outcome and raises nothing
C11_FailuresReturnPenalty ==
    \A w \in Workers :
        (/\ pc[w] = "returned"
         /\ ran_sim[w]
         /\ (exc[w] # "none" \/ sim_res[w] \in {"FAILED", "PRUNED"}))
        => ret[w] = [kind |-> "measured", cost |-> PenaltyCost]

\* C12: every outcome an admitted trial returns is finite and no larger than
\* the penalty cost
C12_AdmittedOutcomeBounded ==
    \A w \in Workers :
        ret[w].kind = "measured" => ret[w].cost <= PenaltyCost

C15_SoftSkipReturnsEstimate ==
    \A w \in Workers :
        (pc[w] = "returned" /\ ~run_real_sim[w]) =>
            ret[w] = [kind |-> "predicted",
                      cost |-> trust[w].pred + predict_bias.mean]

C15_Witness ==
    \E w \in Workers :
        /\ pc[w] = "returned" /\ ~run_real_sim[w]
        /\ ret[w].kind = "predicted" /\ ret[w].cost \in MuVals

InsideSurrogate(w) == pc[w] \in {"add_y", "train_fit"}

\* C17: with several threads in objective no two of them are inside
\* add_observation or train at the same time, and the arrays train builds
\* have one target for every input row
C17_IngestAndTrainExclusive ==
    /\ Cardinality({w \in Workers : InsideSurrogate(w)}) <= 1
    /\ \A w \in Workers :
          pc[w] = "train_fit" => snapshot[w].x = snapshot[w].y

\* the second half of C17 alone: train never builds arrays of different
\* lengths
C17_TrainSeesWholeRows ==
    \A w \in Workers : pc[w] = "train_fit" => snapshot[w].x = snapshot[w].y

C19_SurrogateFailureContained ==
    \A w \in Workers : ret[w].kind # "error" /\ pc[w] # "stopped"

\* w has appended its observation and has not yet returned from objective
AppendedNotReturned(w) ==
    pc[w] \in {"add_y", "train_check", "train", "train_fit", "ingest_return"}

\* C20: the training set has one row for every admitted call of objective
\* that has returned an outcome (plus one for each call that is between its
\* append and its return); soft-skipped and pruned trials add none
C20_OneObservationPerAdmittedReturn ==
    n_obs = n_returned + Cardinality({w \in Workers : AppendedNotReturned(w)})

\* admitted trials have been ingested and a soft-skipped one has just returned
C20_Witness ==
    /\ n_obs >= MinTrainPoints
    /\ n_trials > n_obs
    /\ \E w \in Workers : pc[w] = "returned" /\ ret[w].kind = "predicted"

\* w has a permit of license_semaphore it has not released
HoldsPermit(w) == acquired[w] /\ releases[w] = 0

\* w has taken a port from available_ports and has not put it back
HoldsPort(w) == port[w] # NoPort /\ puts[w] = 0

\* w is past the with block of _run_carmaker_simulation: extracting the
\* results (after_lease) or ingesting and retraining (ingest)
PastLease(w) == pc[w] \in {"after_lease", "ingest"}

\* C30: a worker that is extracting results, ingesting the outcome or
\* retraining holds neither a port nor a permit: the lease has been released
\* before process_results, add_observation and train
C30_NoSlotHeldAfterEvaluation ==
    \A w \in Workers :
        PastLease(w) =>
           /\ ~HoldsPermit(w)
           /\ ~HoldsPort(w)
           /\ port[w] # NoPort => InQueue(port[w]) >= 1

\* a worker whose evaluation ran on a leased port is about to ingest
C30_Witness ==
    \E w \in Workers :
        /\ pc[w] = "ingest"
        /\ acquired[w] /\ port[w] # NoPort
        /\ sim_res[w] = "SUCCESS"

\* the provenance tags a trial carries in its user attributes: measured
\* (source CarMaker, fidelity high) and predicted (fidelity surrogate_corrected)
ProvenanceTags(w) ==
    (IF user_attrs[w].source = "CarMaker" \/ user_attrs[w].fidelity = "high"
     THEN {"measured"} ELSE {})
    \cup (IF user_attrs[w].fidelity = "surrogate_corrected"
          THEN {"predicted"} ELSE {})

\* C26: every outcome objective returns carries exactly one provenance tag,
\* measured or predicted: after a soft-skip, after a successful real run and
\* after each failed real run
C26_ExactlyOneProvenanceTag ==
    \A w \in Workers :
        (pc[w] = "returned" /\ ret[w].kind \in {"measured", "predicted"}) =>
           Cardinality(ProvenanceTags(w)) = 1

\* the part of C26 that holds: the soft-skip and the real run whose status is
\* SUCCESS return with exactly one tag, which names the branch taken
C26_TaggedOnSuccessAndSoftSkip ==
    \A w \in Workers :
        /\ (pc[w] = "returned" /\ ret[w].kind = "predicted") =>
              ProvenanceTags(w) = {"predicted"}
        /\ (pc[w] = "returned" /\ ret[w].kind = "measured"
               /\ sim_res[w] = "SUCCESS" /\ exc[w] = "none") =>
              ProvenanceTags(w) = {"measured"}

\* ------------------------------------------------------ CarMakerInterface
\* kill_carmaker (carmaker_interface.py 25-33): taskkill /F /IM CM_Office.exe /T
\* ends every process of that image name, whichever invocation started it
KillCarmaker(r) ==
    /\ process' = [q \in DOMAIN process |-> IF process[q] = "alive" THEN "killed" ELSE process[q]]
    /\ killed_by' = [q \in DOMAIN process |-> IF process[q] = "alive" THEN r ELSE killed_by[q]]

\* run_test returns the dict {'status': st, 'lap_time': ...}; lap names the
\* trial whose child wrote the lap time, why records the path taken
RunTestReturns(r, st, lap, why) ==
    /\ status' = [status EXCEPT ![r] = st]
    /\ lap_of' = [lap_of EXCEPT ![r] = lap]
    /\ cause' = [cause EXCEPT ![r] = why]
    /\ rt_pc' = [rt_pc EXCEPT ![r] = "done"]

\* check_result_in_user_folder(start_time) (296-315): a lap time is taken only
\* from a log file whose mtime is later than this invocation's sim_start_time
check_result_in_user_folder(r) ==
    IF user_log.trial # 0 /\ r \in user_log.after THEN user_log.trial ELSE 0

\* extract_time_from_debug_log() (277-294): the "Simulation Time:" line of
\* debug_tcl.txt, whenever and by whichever trial it was written
extract_time_from_debug_log == debug_log.time_of

\* run_test, lines 35-36: a new invocation; kill_carmaker() comes first. The
\* child of this thread's previous invocation, if it was left alive, dies too.
RunTestStart(r) ==
    /\ rt_pc[r] \in {"idle", "done"}
    /\ next_trial <= MaxRunTests
    /\ trial_id' = [trial_id EXCEPT ![r] = next_trial]
    /\ next_trial' = next_trial + 1
    /\ process' = [q \in DOMAIN process |-> IF q = r THEN "none"
                                  ELSE IF process[q] = "alive" THEN "killed"
                                  ELSE process[q]]
    /\ killed_by' = [q \in DOMAIN process |-> IF q = r THEN 0
                                    ELSE IF process[q] = "alive" THEN r
                                    ELSE killed_by[q]]
    /\ tcl' = [tcl EXCEPT ![r] = "none"]
    /\ elapsed' = [elapsed EXCEPT ![r] = 0]
    /\ status' = [status EXCEPT ![r] = "none"]
    /\ lap_of' = [lap_of EXCEPT ![r] = 0]
    /\ cause' = [cause EXCEPT ![r] = "none"]
    /\ rt_pc' = [rt_pc EXCEPT ![r] = "setup"]
    /\ UNCHANGED <<debug_log, user_log, campaignVars, scriptVars>>

\* run_test, lines 41-59: the vehicle copy fails or the template is missing:
\* return Crash; otherwise go on
RunTestSetup(r) ==
    /\ rt_pc[r] = "setup"
    /\ \/ /\ RunTestReturns(r, "Crash", 0, "setup")
       \/ /\ rt_pc' = [rt_pc EXCEPT ![r] = "write"]
          /\ UNCHANGED <<status, lap_of, cause>>
    /\ UNCHANGED <<trial_id, next_trial, process, tcl, killed_by, elapsed, debug_log,
                   user_log, campaignVars, scriptVars>>

\* run_test, lines 61-94 and 186-187: the template is read, the TestRun file
\* and launch_sim.tcl are written, outside any try block: an OSError of open()
\* or makedirs() leaves run_test as an exception, without a dict
RunTestWrite(r) ==
    /\ rt_pc[r] = "write"
    /\ \/ /\ rt_pc' = [rt_pc EXCEPT ![r] = "launch"]
          /\ UNCHANGED <<status, lap_of, cause>>
       \/ /\ RunTestReturns(r, "none", 0, "raised")
    /\ UNCHANGED <<trial_id, next_trial, process, tcl, killed_by, elapsed, debug_log,
                   user_log, campaignVars, scriptVars>>

\* run_test, lines 199-212: sim_start_time = time.time(); Popen starts the
\* child, or raises and the except clause of 266-270 returns Crash. Files
\* written before now are older than sim_start_time.
RunTestLaunch(r) ==
    /\ rt_pc[r] = "launch"
    /\ user_log' = [user_log EXCEPT !.after = @ \ {r}]
    /\ \/ /\ process' = [process EXCEPT ![r] = "alive"]
          /\ tcl' = [tcl EXCEPT ![r] = "starting"]
          /\ rt_pc' = [rt_pc EXCEPT ![r] = "poll"]
          /\ UNCHANGED <<status, lap_of, cause>>
       \/ /\ RunTestReturns(r, "Crash", 0, "exception")
          /\ UNCHANGED <<process, tcl>>
    /\ UNCHANGED <<trial_id, next_trial, killed_by, elapsed, debug_log, campaignVars,
                   scriptVars>>

\* run_test, lines 214-241: one pass of the loop while the deadline has not
\* expired: poll the child, look for a result in the user folder, then in the
\* debug log, else sleep 1 s
RunTestPoll(r) ==
    /\ rt_pc[r] = "poll"
    /\ elapsed[r] < MaxPolls
    /\ IF process[r] # "alive"
       THEN \* 216-219: the child has exited: break
            /\ rt_pc' = [rt_pc EXCEPT ![r] = "final"]
            /\ cause' = [cause EXCEPT ![r] = "exit"]
            /\ UNCHANGED <<process, killed_by, elapsed, status, lap_of>>
       ELSE IF check_result_in_user_folder(r) # 0
       THEN \* 222-226
            /\ KillCarmaker(r)
            /\ RunTestReturns(r, "Complete", check_result_in_user_folder(r), "result")
            /\ UNCHANGED elapsed
       ELSE IF extract_time_from_debug_log # 0
       THEN \* 229-233
            /\ KillCarmaker(r)
            /\ RunTestReturns(r, "Complete", extract_time_from_debug_log, "result")
            /\ UNCHANGED elapsed
       ELSE \* 235-241: time.sleep(1)
            /\ elapsed' = [elapsed EXCEPT ![r] = @ + 1]
            /\ UNCHANGED <<rt_pc, process, killed_by, status, lap_of, cause>>
    /\ UNCHANGED <<trial_id, next_trial, tcl, debug_log, user_log, campaignVars,
                   scriptVars>>

\* run_test, line 214: the loop condition fails: timeout seconds have passed
RunTestDeadline(r) ==
    /\ rt_pc[r] = "poll"
    /\ elapsed[r] = MaxPolls
    /\ rt_pc' = [rt_pc EXCEPT ![r] = "final"]
    /\ cause' = [cause EXCEPT ![r] = "deadline"]
    /\ UNCHANGED <<trial_id, next_trial, process, tcl, killed_by, elapsed, status,
                   lap_of, debug_log, user_log, campaignVars, scriptVars>>

\* run_test, lines 243-264: the final scan of the two sources, then
\* _print_diagnostics, kill_carmaker() and return Crash, whether the child
\* exited or the deadline expired
RunTestFinal(r) ==
    /\ rt_pc[r] = "final"
    /\ KillCarmaker(r)
    /\ IF check_result_in_user_folder(r) # 0
       THEN RunTestReturns(r, "Complete", check_result_in_user_folder(r), "result")
       ELSE IF extract_time_from_debug_log # 0
       THEN RunTestReturns(r, "Complete", extract_time_from_debug_log, "result")
       ELSE RunTestReturns(r, "Crash", 0, cause[r])
    /\ UNCHANGED <<trial_id, next_trial, tcl, elapsed, debug_log, user_log,
                   campaignVars, scriptVars>>

\* run_test, lines 266-270: a statement of the try block raises after Popen
\* (os.path.getmtime of 302-303 on a log file that has just been removed, the
\* open() and print() calls of _print_diagnostics): the except clause returns
\* Crash and does not call kill_carmaker()
RunTestExcept(r) ==
    /\ rt_pc[r] \in {"poll", "final"}
    /\ RunTestReturns(r, "Crash", 0, "exception")
    /\ UNCHANGED <<trial_id, next_trial, process, tcl, killed_by, elapsed, debug_log,
                   user_log, campaignVars, scriptVars>>

\* launch_sim.tcl, lines 104-109: the child opens debug_tcl.txt with mode w,
\* which empties it, and writes its header
TclOpenLog(r) ==
    /\ process[r] = "alive" /\ tcl[r] = "starting"
    /\ debug_log' = [trial |-> trial_id[r], time_of |-> 0, fatal |-> FALSE]
    /\ tcl' = [tcl EXCEPT ![r] = "running"]
    /\ UNCHANGED <<rt_pc, trial_id, next_trial, process, killed_by, elapsed, status,
                   lap_of, cause, user_log, campaignVars, scriptVars>>

\* launch_sim.tcl, lines 113-117, 132-136, 141-145: LoadTestRun, StartSim or
\* WaitForStatus fails: a line "FATAL: ..." is written, then close and Exit
TclFatal(r) ==
    /\ process[r] = "alive" /\ tcl[r] = "running"
    /\ debug_log' = [debug_log EXCEPT !.fatal = TRUE]
    /\ tcl' = [tcl EXCEPT ![r] = "fatal"]
    /\ UNCHANGED <<rt_pc, trial_id, next_trial, process, killed_by, elapsed, status,
                   lap_of, cause, user_log, campaignVars, scriptVars>>

\* the simulation ends and CarMaker writes its log file into the user folder;
\* the file is newer than the sim_start_time of every invocation that has
\* launched its child
TclSimLog(r) ==
    /\ process[r] = "alive" /\ tcl[r] = "running"
    /\ user_log' = [trial |-> trial_id[r],
                    after |-> {q \in DOMAIN rt_pc : rt_pc[q] \in {"poll", "final"}}]
    /\ tcl' = [tcl EXCEPT ![r] = "logged"]
    /\ UNCHANGED <<rt_pc, trial_id, next_trial, process, killed_by, elapsed, status,
                   lap_of, cause, debug_log, campaignVars, scriptVars>>

\* launch_sim.tcl, lines 161-166: puts "Simulation Time: $simtime s"
TclSimTime(r) ==
    /\ process[r] = "alive" /\ tcl[r] \in {"running", "logged"}
    /\ debug_log' = [debug_log EXCEPT !.time_of = trial_id[r]]
    /\ tcl' = [tcl EXCEPT ![r] = "finished"]
    /\ UNCHANGED <<rt_pc, trial_id, next_trial, process, killed_by, elapsed, status,
                   lap_of, cause, user_log, campaignVars, scriptVars>>

\* the child exits: the Exit of launch_sim.tcl (116, 135, 144, 184), or the
\* program ends by itself before the script has run
ProcessExits(r) ==
    /\ process[r] = "alive" /\ tcl[r] \in {"starting", "fatal", "finished"}
    /\ process' = [process EXCEPT ![r] = "exited"]
    /\ UNCHANGED <<rt_pc, trial_id, next_trial, tcl, killed_by, elapsed, status,
                   lap_of, cause, debug_log, user_log, campaignVars, scriptVars>>

\* the invocations of run_test made one after the other by the campaign's
\* thread, each with its child process
InitRunTest == InitWith(Jobs, 0)

NextRunTest ==
    \E r \in Jobs :
        \/ RunTestStart(r)
        \/ RunTestSetup(r)
        \/ RunTestWrite(r)
        \/ RunTestLaunch(r)
        \/ RunTestPoll(r)
        \/ RunTestDeadline(r)
        \/ RunTestFinal(r)
        \/ RunTestExcept(r)
        \/ TclOpenLog(r)
        \/ TclFatal(r)
        \/ TclSimLog(r)
        \/ TclSimTime(r)
        \/ ProcessExits(r)

RunTestSpec == InitRunTest /\ [][NextRunTest]_vars

\* several threads call run_test on one CarMakerInterface at the same time
InitConcurrentRunTest ==
    /\ InitCampaign(Jobs, 0)
    /\ InitSupervisor(Runs)
    /\ InitScript

NextConcurrentRunTest ==
    \E r \in Runs :
        \/ RunTestStart(r)
        \/ RunTestSetup(r)
        \/ RunTestWrite(r)
        \/ RunTestLaunch(r)
        \/ RunTestPoll(r)
        \/ RunTestDeadline(r)
        \/ RunTestFinal(r)
        \/ ProcessExits(r)

ConcurrentRunTestSpec == InitConcurrentRunTest /\ [][NextConcurrentRunTest]_vars

\* the invocation of run_test of thread r is over
RunTestOver(r) == rt_pc[r] = "done"

\* what the caller of run_test can see of the result: the status and the
\* lap time (999 when no child's lap time was taken)
Outcome(r) == <<status[r], lap_of[r]>>

\* C21: when the deadline expires before the child has exited or produced a
\* result, the child is terminated and the result that is returned differs
\* from the result returned for a child that crashed
C21_TimedOutDistinctFromCrashed ==
    \A r, q \in DOMAIN rt_pc :
        (RunTestOver(r) /\ cause[r] = "deadline" /\ RunTestOver(q) /\ cause[q] = "exit") =>
           /\ process[r] # "alive"
           /\ Outcome(r) # Outcome(q)

\* the part of C21 that holds: after the deadline the child is not left alive
C21_DeadlineKillsChild ==
    \A r \in DOMAIN rt_pc :
        (RunTestOver(r) /\ cause[r] = "deadline") => process[r] # "alive"

\* the statuses of a result dict
TerminalStatuses == {"Complete", "Crash"}

\* C22: every invocation of run_test that is over has returned a result whose
\* status is one of the terminal statuses, on every path
C22_EveryInvocationReturnsStatus ==
    \A r \in DOMAIN rt_pc : RunTestOver(r) => status[r] \in TerminalStatuses

\* the part of C22 that holds: the paths of lines 35-59 and 199-275 all
\* return a dict with a terminal status
C22_GuardedPathsReturnStatus ==
    \A r \in DOMAIN rt_pc :
        (RunTestOver(r) /\ cause[r] # "raised") => status[r] \in TerminalStatuses

\* C23: run_test is never over while the child it started is alive, on any
\* exit path after the launch, the caught exception included
C23_NoReturnWhileChildAlive ==
    \A r \in DOMAIN rt_pc : RunTestOver(r) => process[r] # "alive"

\* thread r executes a step of run_test
RunTestSteps(r) == rt_pc'[r] # rt_pc[r] \/ elapsed'[r] # elapsed[r]

\* C24: when the child's output holds a FATAL line while the child is alive,
\* the next pass of the polling loop returns Crash and terminates the child,
\* without waiting for the child to exit or for the deadline
C24_FatalMarkerEndsRun ==
    [][\A r \in DOMAIN rt_pc :
         (/\ rt_pc[r] = "poll"
          /\ process[r] = "alive"
          /\ debug_log.fatal /\ debug_log.trial = trial_id[r]
          /\ RunTestSteps(r))
         => (/\ rt_pc'[r] = "done"
             /\ status'[r] = "Crash"
             /\ process'[r] # "alive")]_vars

\* C27: a result with status Complete carries the lap time written by the
\* child of the same trial, never one left behind by an earlier trial
C27_LapTimeFromOwnTrial ==
    \A r \in DOMAIN rt_pc :
        (RunTestOver(r) /\ status[r] = "Complete") => lap_of[r] = trial_id[r]

\* the part of C27 that holds: a lap time read from the user folder is never
\* older than this invocation's sim_start_time
C27_UserFolderResultIsFresh ==
    [][\A r \in DOMAIN rt_pc :
         (rt_pc[r] \in {"poll", "final"} /\ check_result_in_user_folder(r) # 0
          /\ RunTestOver(r)' /\ status'[r] = "Complete")
         => lap_of'[r] = trial_id[r]]_vars

\* C28: with several invocations of run_test in flight, a child is only ever
\* killed by the invocation that started it
C28_KillsOnlyOwnChild ==
    \A q \in DOMAIN process : process[q] = "killed" => killed_by[q] = q

\* ------------------------------------------------------ the entry scripts
\* __main__ (run_real_optimization.py 83-91, run_with_tui.py 84-95): the
\* optimization thread is started and the main thread enters run_monitor
MainStart ==
    /\ script = "none"
    /\ \E s \in {"real", "tui"} : script' = s
    /\ opt_pc' = "start"
    /\ main_pc' = "monitor"
    /\ UNCHANGED <<stop_event, interrupted, campaignVars, superVars>>

\* run_optimization_thread, run_real_optimization.py 46-51: the executable is
\* looked up; run_with_tui.py has no such test
ThreadCheckExe ==
    /\ opt_pc = "start"
    /\ \/ script = "real" /\ opt_pc' = "exe_missing"
       \/ opt_pc' = "construct"
    /\ UNCHANGED <<script, main_pc, stop_event, interrupted, campaignVars, superVars>>

\* run_optimization_thread, run_real_optimization.py 53-59, run_with_tui.py
\* 56-62: the orchestrator is constructed outside the try block; an exception
\* of the constructor ends the thread
ThreadConstruct ==
    /\ opt_pc = "construct"
    /\ \/ opt_pc' = "check_template"
       \/ opt_pc' = "died"
    /\ UNCHANGED <<script, main_pc, stop_event, interrupted, campaignVars, superVars>>

\* run_optimization_thread, run_real_optimization.py 62-63: the template is
\* looked up; run_with_tui.py 65-69 writes the template when it is missing
ThreadCheckTemplate ==
    /\ opt_pc = "check_template"
    /\ \/ script = "real" /\ opt_pc' = "template_missing"
       \/ opt_pc' = "run"
    /\ UNCHANGED <<script, main_pc, stop_event, interrupted, campaignVars, superVars>>

\* a validation failure that returns without touching stop_event
ThreadValidationFailsSilently ==
    /\ opt_pc \in {"exe_missing", "template_missing"}
    /\ opt_pc' = "exit"
    /\ UNCHANGED <<script, main_pc, stop_event, interrupted, campaignVars, superVars>>

\* run_optimization_thread, run_real_optimization.py 49-51 and 64-66:
\* logging.critical(...); stop_event.set(); return
ThreadValidationFails ==
    /\ opt_pc \in {"exe_missing", "template_missing"}
    /\ stop_event' = TRUE
    /\ opt_pc' = "exit"
    /\ UNCHANGED <<script, main_pc, interrupted, campaignVars, superVars>>

\* orchestrator.run -> study.optimize (orchestrator.py 203-208): the next
\* trial is handed to objective; nothing here looks at stop_event
OptimizeTrialStart(w) ==
    /\ opt_pc = "run"
    /\ pc[w] = "idle"
    /\ n_trials < MaxTrials
    /\ n_trials' = n_trials + 1
    /\ pc' = [pc EXCEPT ![w] = "exec"]
    /\ ret' = [ret EXCEPT ![w] = NoRet]
    /\ UNCHANGED <<poolVars, leaseVars, run_real_sim, predicted_vals, sim_res, res,
                   ran_sim, lease_calls, trust, train_called, snapshot, user_attrs,
                   study_best, n_obs, y_history, n_returned, n_admitted, is_trained,
                   faults, superVars, scriptVars>>

\* the trial ends as objective ends it: a measured or predicted value, a
\* pruned trial, or an exception that study.optimize re-raises into
\* run_optimization_thread (run_real_optimization.py 71, run_with_tui.py 74)
OptimizeTrialEnd(w) ==
    /\ opt_pc = "run"
    /\ pc[w] = "exec"
    /\ \E k \in {"measured", "predicted", "pruned", "error"} :
          /\ ret' = [ret EXCEPT ![w] = [kind |-> k, cost |-> 0]]
          /\ pc' = [pc EXCEPT ![w] = IF k = "error" THEN "stopped" ELSE "idle"]
          /\ opt_pc' = IF k = "error" THEN "run_except" ELSE opt_pc
    /\ UNCHANGED <<poolVars, leaseVars, run_real_sim, predicted_vals, sim_res, res,
                   ran_sim, lease_calls, trust, train_called, snapshot, user_attrs,
                   studyVars, faults, superVars, script, main_pc, stop_event,
                   interrupted>>

\* orchestrator.run returns after n_trials trials (orchestrator.py 208-212)
OptimizeEnds ==
    /\ opt_pc = "run"
    /\ n_trials = MaxTrials
    /\ \A w \in Jobs : pc[w] = "idle"
    /\ opt_pc' = "run_finally"
    /\ UNCHANGED <<script, main_pc, stop_event, interrupted, campaignVars, superVars>>

\* run_optimization_thread, run_real_optimization.py 71-72, run_with_tui.py
\* 74-75: except Exception: the crash is logged
ThreadExcept ==
    /\ opt_pc = "run_except"
    /\ opt_pc' = "run_finally"
    /\ UNCHANGED <<script, main_pc, stop_event, interrupted, campaignVars, superVars>>

\* a finally block that does not set the event
ThreadFinallySkipsSet ==
    /\ opt_pc = "run_finally"
    /\ opt_pc' = "exit"
    /\ UNCHANGED <<script, main_pc, stop_event, interrupted, campaignVars, superVars>>

\* run_optimization_thread, run_real_optimization.py 73-74, run_with_tui.py
\* 76-77: finally: stop_event.set()
ThreadFinally ==
    /\ opt_pc = "run_finally"
    /\ stop_event' = TRUE
    /\ opt_pc' = "exit"
    /\ UNCHANGED <<script, main_pc, interrupted, campaignVars, superVars>>

\* TerminalDashboard.run_monitor (terminal_ui.py 88-101): the loop
\* "while not stop_event.is_set()" is left once the event is set; then
\* __main__ goes on to opt_thread.join()
MonitorExits ==
    /\ main_pc = "monitor"
    /\ stop_event
    /\ main_pc' = "join"
    /\ UNCHANGED <<script, opt_pc, stop_event, interrupted, campaignVars, superVars>>

\* __main__, run_real_optimization.py 92-94, run_with_tui.py 96-98: the
\* operator interrupts run_monitor: except KeyboardInterrupt: stop_event.set()
KeyboardInterrupt ==
    /\ main_pc = "monitor"
    /\ interrupted' = TRUE
    /\ stop_event' = TRUE
    /\ main_pc' = "join"
    /\ UNCHANGED <<script, opt_pc, campaignVars, superVars>>

\* __main__, run_real_optimization.py 96, run_with_tui.py 100:
\* opt_thread.join() returns when the thread has ended
MainJoin ==
    /\ main_pc = "join"
    /\ opt_pc \in {"exit", "died"}
    /\ main_pc' = "exit"
    /\ UNCHANGED <<script, opt_pc, stop_event, interrupted, campaignVars, superVars>>

InitScriptRun == InitWith(Jobs, 1)

\* the steps of run_optimization_thread
ThreadStep ==
    \/ ThreadCheckExe
    \/ ThreadConstruct
    \/ ThreadCheckTemplate
    \/ ThreadValidationFails
    \/ \E w \in Jobs : OptimizeTrialStart(w) \/ OptimizeTrialEnd(w)
    \/ OptimizeEnds
    \/ ThreadExcept
    \/ ThreadFinally

\* the steps of the main thread
MainStep == MainStart \/ MonitorExits \/ MainJoin

NextScript ==
    \/ MainStart
    \/ ThreadCheckExe
    \/ ThreadConstruct
    \/ ThreadCheckTemplate
    \/ ThreadValidationFails
    \/ \E w \in Jobs : OptimizeTrialStart(w)
    \/ \E w \in Jobs : OptimizeTrialEnd(w)
    \/ OptimizeEnds
    \/ ThreadExcept
    \/ ThreadFinally
    \/ MonitorExits
    \/ KeyboardInterrupt
    \/ MainJoin

\* both threads keep running; the operator's interrupt may never come
FairScriptSpec ==
    InitScriptRun /\ [][NextScript]_vars /\ WF_vars(ThreadStep) /\ WF_vars(MainStep)

\* C25: once the operator has interrupted the campaign, the optimization
\* thread starts no further trial, and a trial that was in flight ends
\* reported as aborted, not with the outcome of a completed or failed run
C25_CancellationReachesTrials ==
    [][interrupted =>
         \A w \in Jobs :
            /\ ~(pc[w] = "idle" /\ pc'[w] = "exec")
            /\ (pc[w] = "exec" /\ pc'[w] # "exec") => ret'[w].kind = "aborted"]_vars

\* run_optimization_thread has left the optimization loop (normal end or
\* exception) or has found the executable or the template missing
SignalPaths == {"exe_missing", "template_missing", "run_except", "run_finally"}

\* C29: on every path of run_optimization_thread through the optimization
\* loop and on both validation failures stop_event is eventually set, the
\* monitor loop is left and opt_thread.join() returns
C29_WorkerSignalsCompletion ==
    (opt_pc \in SignalPaths) ~> (stop_event /\ main_pc = "exit")

\* the loop was left by an exception, the event is set and join has returned
C29_Witness ==
    /\ \E w \in Jobs : ret[w].kind = "error"
    /\ opt_pc = "exit"
    /\ stop_event /\ ~interrupted
    /\ main_pc = "exit"

==========================================================================
